---- MODULE Spec2Model ----
(***************************************************************************)
(* A model of the Manage-eka management portal: the Firestore collections  *)
(* (users, meetings, tasks, notifications) shared by all browser sessions, *)
(* and, per session, the React state of the mounted page (Meetings or      *)
(* Tasks) with its asynchronous handlers.  Every `await` of a handler is a *)
(* point where other sessions may act.  A handler's first step is the      *)
(* click together with the outcome of its primary write: up to that write  *)
(* the handler reads only values its closure captured and nothing another  *)
(* session can see changes, so the two commute with every other step.  The *)
(* notification writes that follow are steps of their own, and so is the   *)
(* arrival of each list refresh (fetchMeetings / fetchTasks), which is     *)
(* answered from the collection as it is when the answer arrives; reads    *)
(* of one session that are unanswered at the same time are held as one.    *)
(* A run is short against the clock: `now` stays where it starts.          *)
(*                                                                         *)
(* Fields that no handler reads back (description, location, priority,     *)
(* createdAt of meetings and tasks) are left out of the records.  The      *)
(* setTimeout callbacks that blank the success and error banners after a   *)
(* few seconds and the console.error lines are not modelled: a banner      *)
(* stands until a handler sets it again.                                   *)
(***************************************************************************)
EXTENDS Integers, Sequences, FiniteSets, TLC

\* ------------------------------------------------------------- bounds
MaxMeetings == 1      \* meeting documents ever created
MaxTasks == 1         \* task documents ever created
MaxNotes == 2         \* notes appended to one task
MaxAttendees == 4     \* length of a meeting's attendees array
MaxOps == 3           \* handler calls in one run of the Meetings page
MaxFxOps == 2         \* handler calls in one run of creations and notes
MaxTaskOps == 2       \* handler calls in one run of the Tasks page
MaxNotifs == 2        \* notification documents ever created in a feed run
MaxDashMeetings == 6  \* meeting documents in the store of a Dashboard run
MaxReplies == 2       \* getDocs results of one session on their way at once
MaxFeedOps == 2       \* calls and session changes in one run of the feed

\* ------------------------------------------------------------- domains
Sessions == {"A", "B"}
Uids == {"u1", "u2", "u3"}
NoUser == "none"
Titles == {"t1"}
\* What the title field of a form can hold: a title or nothing
FormTitles == Titles \cup {""}
\* Instants of the form's date and time: 0 is not after the clock, 1 is.
Dates == {0, 1}
Statuses == {"pending", "in-progress", "completed"}
\* userRole of a session whose signed-in user has no role loaded yet (null)
NoRole == "unresolved"
\* limit(20) of the notification feed query
FeedLimit == 20
\* limit(5) of the Dashboard's recent tasks query
RecentLimit == 5
\* slice(0, 5) of the Dashboard's upcoming meetings
UpcomingLimit == 5
\* Instants of the meetings of a Dashboard run
DashDates == 0 .. 2
UidOrder == <<"u1", "u2", "u3">>

RoleOf(u) ==
    IF u = "u1" THEN "superadmin" ELSE IF u = "u2" THEN "admin" ELSE "member"

\* Who is signed in where: the sessions are interchangeable, so one order of
\* each pair of users is enough.
Logins ==
    {[A |-> "u1", B |-> "u1"], [A |-> "u2", B |-> "u2"], [A |-> "u3", B |-> "u3"],
     [A |-> "u1", B |-> "u2"], [A |-> "u1", B |-> "u3"], [A |-> "u2", B |-> "u3"]}

DisplayName(u) == <<"name", u>>

Idle == [op |-> "idle", phase |-> "idle"]

\* ------------------------------------------------------------- state
VARIABLES
    usersDb,         \* collection users: the uids that have a document
    meetingsDb,      \* collection meetings: id -> document
    nextMeetingId,   \* ids handed out by addDoc(meetings)
    tasksDb,         \* collection tasks: id -> document
    nextTaskId,      \* ids handed out by addDoc(tasks)
    notifs,          \* collection notifications, in commit order
    now,             \* the wall clock
    ops,             \* handler calls left in the run
    principal,       \* useAuth().currentUser of each session (uid or NoUser)
    userRole,        \* useAuth().userRole of each session
    page,            \* the page component mounted in each session
    meetings,        \* Meetings: useState meetings (sorted local copy)
    tasks,           \* Tasks: useState tasks (sorted local copy)
    users,           \* useState users of the mounted page
    usersFetch,      \* fetchUsers: "none" | "pending" | "done" | "failed"
    inflight,        \* whether a fetchMeetings / fetchTasks call is unanswered
    pc,              \* the handler of the session that awaits a notification
    success,         \* useState success
    error,           \* useState error
    editingMeeting,  \* Meetings: useState editingMeeting (id, 0 for null)
    selectedTask,    \* Tasks: useState selectedTask (record, or NoTask)
    editingTask,     \* Tasks: useState editingTask (record, or NoTask)
    queries,         \* the roles captured by the unanswered fetches of the useEffect
    dashboard,       \* Dashboard: what fetchDashboardData loaded (or NoDashboard)
    subs,            \* NotificationProvider: the uids of the active onSnapshot listeners
    feed,            \* NotificationProvider: useState notifications
    replies          \* results of getDocs on their way to the page, oldest first

storeVars == <<usersDb, meetingsDb, nextMeetingId, tasksDb, nextTaskId, notifs>>
sessVars == <<principal, userRole, page, meetings, tasks, users, usersFetch,
              inflight, pc, success, error, editingMeeting,
              selectedTask>>
\* The state of the components and handlers that the Meetings page and the
\* creation and note handlers leave alone.
ctxVars == <<editingTask, queries, dashboard, subs, feed, replies>>
vars == <<usersDb, meetingsDb, nextMeetingId, tasksDb, nextTaskId, notifs, now, ops,
          principal, userRole, page, meetings, tasks, users, usersFetch,
          inflight, pc, success, error, editingMeeting,
          selectedTask, editingTask, queries, dashboard, subs, feed, replies>>

NoTask == [id |-> 0]
NoDashboard == [loaded |-> FALSE]

\* ------------------------------------------------------------- helpers
Range(f) == {f[i] : i \in DOMAIN f}

\* The ids of the documents of a list
IdsOf(list) == {list[i].id : i \in DOMAIN list}

\* date-fns isFuture(date) at clock value t
isFuture(date, t) == date > t

\* Array.prototype.sort((a, b) => b.date - a.date): stable, so equal dates keep
\* the order of snapshot.docs (document id order).
RECURSIVE InsertByDateDesc(_, _)
InsertByDateDesc(seq, m) ==
    IF seq = <<>> THEN <<m>>
    ELSE IF Head(seq).date >= m.date
         THEN <<Head(seq)>> \o InsertByDateDesc(Tail(seq), m)
         ELSE <<m>> \o seq

RECURSIVE SortByDateDesc(_)
SortByDateDesc(seq) ==
    IF seq = <<>> THEN <<>>
    ELSE InsertByDateDesc(SortByDateDesc(SubSeq(seq, 1, Len(seq) - 1)), seq[Len(seq)])

\* snapshot.docs of a collection held as id -> document, in id order
RECURSIVE DocsUpTo(_, _)
DocsUpTo(db, n) ==
    IF n = 0 THEN <<>>
    ELSE IF n \in DOMAIN db
         THEN Append(DocsUpTo(db, n - 1), [id |-> n] @@ db[n])
         ELSE DocsUpTo(db, n - 1)

\* meetingsData of fetchMeetings: the documents with their ids, sorted by date
MeetingsData(db) == SortByDateDesc(DocsUpTo(db, MaxMeetings + 1))

\* usersData of fetchUsers: the user documents in id order
UsersData(db) == SelectSeq(UidOrder, LAMBDA u : u \in db)

\* ------------------------------------------------------------- notifications
\* A notification document that is born read.
NotificationDocRead(userId, title, about, type) ==
    [userId |-> userId, title |-> title, about |-> about, type |-> type,
     read |-> TRUE, createdAt |-> now]

\* The document createNotification writes (utils/notifications): addressed to one
\* user, unread, stamped with the client clock.  `about` stands for the message
\* text, which names the task or meeting.
NotificationDoc(userId, title, about, type) ==
    [userId |-> userId, title |-> title, about |-> about, type |-> type,
     read |-> FALSE, createdAt |-> now]

\* What the handler's own success banner and catch clause say, by handler.
SuccessText(op) ==
    CASE op = "createMeeting" -> "Meeting scheduled successfully!"
      [] op = "updateMeeting" -> "Meeting updated successfully!"
      [] op = "deleteMeeting" -> "Meeting deleted successfully!"
      [] op = "mark" -> "Attendance marked successfully!"
      [] op = "createTask" -> "Task created successfully!"
      [] op = "addNote" -> "Note added successfully!"
      [] op = "updateTask" -> "Task updated successfully!"
      [] op = "deleteTask" -> "Task deleted successfully!"
      [] op = "status" -> "Status updated!"
      [] OTHER -> "done"

ErrorText(op) ==
    CASE op = "createMeeting" -> "Failed to create meeting"
      [] op = "updateMeeting" -> "Failed to update meeting"
      [] op = "deleteMeeting" -> "Failed to delete meeting"
      [] op = "mark" -> "Failed to mark attendance"
      [] op = "createTask" -> "Failed to create task"
      [] op = "addNote" -> "Failed to add note"
      [] op = "updateTask" -> "Failed to update task"
      [] op = "deleteTask" -> "Failed to delete task"
      [] op = "status" -> "Failed to update status"
      [] OTHER -> "failed"

\* ------------------------------------------------------------- shared steps
\* A handler starts: no handler of the session is at an await (the buttons are
\* disabled while loading) and the run has handler calls left.
CanStart(s) ==
    /\ pc[s] = Idle
    /\ ops > 0
    /\ ops' = ops - 1

\* The end of a handler's try block once its writes are done: the success
\* banner and the refresh of the list (fetchMeetings / fetchTasks).
Finish(s, op) ==
    /\ pc' = [pc EXCEPT ![s] = Idle]
    /\ success' = [success EXCEPT ![s] = SuccessText(op)]
    /\ inflight' = [inflight EXCEPT ![s] = TRUE]

\* A handler's catch clause: the error banner, no refresh.
Caught(s, op) ==
    /\ pc' = [pc EXCEPT ![s] = Idle]
    /\ error' = [error EXCEPT ![s] = ErrorText(op)]

\* notifyAllUsers makes all its createNotification calls at once (Promise.all
\* over userIds.map); handleAddNote awaits one call before it makes the next,
\* which reads Timestamp.now() then.
Called(op, queue) ==
    IF op = "addNote" THEN [queue EXCEPT ![1].createdAt = now] ELSE queue

\* A handler past its primary write: either notification writes are still to
\* be awaited (the calls not yet resolved in `queue`), or the try block runs
\* to its end.
Proceed(s, op, queue) ==
    IF queue = <<>>
    THEN Finish(s, op)
    ELSE /\ pc' = [pc EXCEPT ![s] =
                     [op |-> op, phase |-> "notify", queue |-> Called(op, queue)]]
         /\ UNCHANGED <<success, inflight>>

\* The outcome of a handler whose primary write was rejected, were the write
\* not inside the try block: the handler goes on to its notifications.
OnPrimaryFailureIgnored(s, op, queue) ==
    /\ Proceed(s, op, queue)
    /\ UNCHANGED error

\* The outcome of a handler whose primary write (addDoc / updateDoc /
\* deleteDoc) was rejected: control jumps to the catch clause; nothing after
\* the await in the try block runs and nothing is sent again.
OnPrimaryFailure(s, op, queue) ==
    /\ Caught(s, op)
    /\ UNCHANGED <<success, inflight>>

\* createNotification, addDoc resolved: the notification document exists.
NotifyOk(s) ==
    /\ pc[s].phase = "notify"
    /\ notifs' = Append(notifs, Head(pc[s].queue))
    /\ Proceed(s, pc[s].op, Tail(pc[s].queue))
    /\ UNCHANGED <<usersDb, meetingsDb, nextMeetingId, tasksDb, nextTaskId, now, ops,
                   principal, userRole, page, meetings, tasks, users, usersFetch,
                   error, editingMeeting, selectedTask>>
    /\ UNCHANGED ctxVars

\* createNotification when addDoc rejects, thrown on to the caller: what the
\* function would do without its try/catch.
OnNotifyFailureRethrow(s) ==
    /\ Caught(s, pc[s].op)
    /\ UNCHANGED <<success, inflight>>

\* createNotification when addDoc rejects: its own catch clause logs the error
\* and the promise resolves, so the caller goes on as after a success.
OnNotifyFailure(s) ==
    /\ Proceed(s, pc[s].op, Tail(pc[s].queue))
    /\ UNCHANGED error

NotifyFail(s) ==
    /\ pc[s].phase = "notify"
    /\ OnNotifyFailure(s)
    /\ UNCHANGED <<storeVars, now, ops, principal, userRole, page, meetings, tasks,
                   users, usersFetch, editingMeeting, selectedTask>>
    /\ UNCHANGED ctxVars

\* fetchUsers (both pages): setUsers(documents of the users collection).
FetchUsersDone(s) ==
    /\ usersFetch[s] = "pending"
    /\ usersFetch' = [usersFetch EXCEPT ![s] = "done"]
    /\ users' = [users EXCEPT ![s] = UsersData(usersDb)]
    /\ UNCHANGED <<storeVars, now, ops, principal, userRole, page, meetings, tasks,
                   inflight, pc, success, error, editingMeeting, selectedTask>>
    /\ UNCHANGED ctxVars

\* fetchUsers: getDocs rejects; only console.error, users stays as it was.
FetchUsersFail(s) ==
    /\ usersFetch[s] = "pending"
    /\ usersFetch' = [usersFetch EXCEPT ![s] = "failed"]
    /\ UNCHANGED <<storeVars, now, ops, principal, userRole, page, meetings, tasks,
                   users, inflight, pc, success, error, editingMeeting, selectedTask>>
    /\ UNCHANGED ctxVars

\* ------------------------------------------------------------- Meetings page
OnMeetings(s) == page[s] = "meetings" /\ principal[s] # NoUser

\* meetings.find(m => m.id === meetingId); [id |-> 0] stands for undefined
FindMeeting(list, id) ==
    IF \E i \in DOMAIN list : list[i].id = id
    THEN list[CHOOSE i \in DOMAIN list : list[i].id = id]
    ELSE [id |-> 0]

\* canEdit(meeting)
canEdit(s, m) ==
    \/ userRole[s] = "superadmin"
    \/ (userRole[s] = "admin" /\ m.createdBy = principal[s])

\* hasMarkedAttendance(meeting): meeting.attendees?.includes(currentUser?.uid)
hasMarkedAttendance(s, m) == principal[s] \in Range(m.attendees)

\* The condition under which the card of meeting m shows "Mark Attendance".
MarkButtonShown(s, m) ==
    /\ principal[s] # NoUser
    /\ ~hasMarkedAttendance(s, m)
    /\ isFuture(m.date, now)
    /\ m.status = "scheduled"

\* attendeesData.some(a => a.uid === userId)
alreadyMarked(attendeesData, userId) ==
    \E i \in DOMAIN attendeesData : attendeesData[i].uid = userId

\* fetchMeetings, getDocs resolved: setMeetings(sorted documents).
FetchMeetingsDone(s) ==
    /\ page[s] = "meetings"
    /\ inflight[s]
    /\ inflight' = [inflight EXCEPT ![s] = FALSE]
    /\ meetings' = [meetings EXCEPT ![s] = MeetingsData(meetingsDb)]
    /\ UNCHANGED <<storeVars, now, ops, principal, userRole, page, tasks, users,
                   usersFetch, pc, success, error, editingMeeting, selectedTask>>
    /\ UNCHANGED ctxVars

\* seq without its i-th element
RemoveAt(seq, i) == SubSeq(seq, 1, i - 1) \o SubSeq(seq, i + 1, Len(seq))

\* fetchMeetings, the store's part: the query of getDocs is evaluated on the
\* collection as it is now, and the snapshot is on its way to the page.
FetchMeetingsRead(s) ==
    /\ OnMeetings(s)
    /\ inflight[s]
    /\ Len(replies[s]) < MaxReplies
    /\ inflight' = [inflight EXCEPT ![s] = FALSE]
    /\ replies' = [replies EXCEPT ![s] = Append(@, meetingsDb)]
    /\ UNCHANGED <<storeVars, now, ops, principal, userRole, page, meetings, tasks,
                   users, usersFetch, pc, success, error, editingMeeting,
                   selectedTask, editingTask, queries, dashboard, subs, feed>>

\* fetchMeetings, the page's part: the await of one of the getDocs calls
\* resolves with its snapshot, whichever call it is (nothing in fetchMeetings
\* tells an earlier call from a later one), and setMeetings stores the sorted
\* documents.
FetchMeetingsReply(s, i) ==
    /\ OnMeetings(s)
    /\ i \in DOMAIN replies[s]
    /\ meetings' = [meetings EXCEPT ![s] = MeetingsData(replies[s][i])]
    /\ replies' = [replies EXCEPT ![s] = RemoveAt(@, i)]
    /\ UNCHANGED <<storeVars, now, ops, principal, userRole, page, tasks, users,
                   usersFetch, inflight, pc, success, error, editingMeeting,
                   selectedTask, editingTask, queries, dashboard, subs, feed>>

\* The calls notifyAllUsers(allUserIds, 'New Meeting Scheduled', ...) makes, for
\* allUserIds = users.map(u => u.uid).
MeetingNotifications(userIds, title) ==
    [i \in DOMAIN userIds |->
        NotificationDoc(userIds[i], "New Meeting Scheduled", title, "meeting")]

\* The document addDoc(collection(db, 'meetings'), ...) writes.
NewMeetingDoc(title, date, by) ==
    [title |-> title, date |-> date, attendees |-> <<>>, attendeesData |-> <<>>,
     status |-> "scheduled", createdBy |-> by]

\* handleCreateMeeting: without a title it sets the error banner and returns;
\* otherwise setError(''), addDoc, and then notifyAllUsers with the users the
\* component holds; the function looks at no role.  `ok` is whether addDoc
\* resolved.
handleCreateMeeting(s, title, date, ok) ==
    /\ OnMeetings(s)
    /\ CanStart(s)
    /\ editingMeeting[s] = 0
    /\ IF title = ""
       THEN /\ error' = [error EXCEPT ![s] = "Please fill all required fields"]
            /\ UNCHANGED <<meetingsDb, nextMeetingId, pc, success, inflight>>
       ELSE IF ok
       THEN /\ nextMeetingId <= MaxMeetings
            /\ meetingsDb' =
                 (nextMeetingId :> NewMeetingDoc(title, date, principal[s])) @@ meetingsDb
            /\ nextMeetingId' = nextMeetingId + 1
            /\ Proceed(s, "createMeeting", MeetingNotifications(users[s], title))
            /\ error' = [error EXCEPT ![s] = ""]
       ELSE /\ nextMeetingId <= MaxMeetings
            /\ OnPrimaryFailure(s, "createMeeting", MeetingNotifications(users[s], title))
            /\ UNCHANGED <<meetingsDb, nextMeetingId>>
    /\ UNCHANGED <<usersDb, tasksDb, nextTaskId, notifs, now, principal, userRole,
                   page, meetings, tasks, users, usersFetch, editingMeeting,
                   selectedTask>>
    /\ UNCHANGED ctxVars

\* The modal's Schedule button; the "Schedule Meeting" button that opens the
\* modal is rendered for superadmin and admin.
CreateMeeting(s, title, date, ok) ==
    /\ userRole[s] \in {"superadmin", "admin"}
    /\ handleCreateMeeting(s, title, date, ok)

\* ------------------------------------------------------------- attendance
\* A payload that extends attendees alone.
MarkPayloadAttendeesOnly(m, userId, userName) ==
    [attendees |-> Append(m.attendees, userId), attendeesData |-> m.attendeesData]

\* The two arrays handleMarkAttendance sends to updateDoc: the local copy of
\* the meeting extended by the user.
MarkPayload(m, userId, userName) ==
    [attendees |-> Append(m.attendees, userId),
     attendeesData |-> Append(m.attendeesData,
                              [uid |-> userId, name |-> userName, timestamp |-> now])]

\* An updateDoc that adds what it is sent to the arrays the document holds
\* (as a plain append would).
ApplyMarkAppend(doc, payload) ==
    [doc EXCEPT !.attendees = Append(@, payload.attendees[Len(payload.attendees)]),
                !.attendeesData =
                    Append(@, payload.attendeesData[Len(payload.attendeesData)])]

\* updateDoc(meetingRef, {attendees, attendeesData}): the two fields of the
\* document are replaced by the arrays sent.
ApplyMark(doc, payload) ==
    [doc EXCEPT !.attendees = payload.attendees,
                !.attendeesData = payload.attendeesData]

\* handleMarkAttendance(meetingId, userId, userName): the meeting is looked up
\* in the local list; an attendee already in the local attendeesData ends the
\* call with the "already marked" banner; otherwise updateDoc is sent, which
\* `ok` says resolved (it cannot for a document that no longer exists).
handleMarkAttendance(s, meetingId, userId, userName, ok) ==
    LET meeting == FindMeeting(meetings[s], meetingId) IN
    /\ meeting.id # 0
    /\ IF alreadyMarked(meeting.attendeesData, userId)
       THEN /\ error' = [error EXCEPT ![s] = "Attendance already marked!"]
                    /\ UNCHANGED <<meetingsDb, pc, success, inflight>>
       ELSE IF ok /\ meetingId \in DOMAIN meetingsDb
       THEN /\ Len(meetingsDb[meetingId].attendees) < MaxAttendees
            /\ meetingsDb' = [meetingsDb EXCEPT ![meetingId] =
                                ApplyMark(@, MarkPayload(meeting, userId, userName))]
            /\ Proceed(s, "mark", <<>>)
            /\ UNCHANGED error
       ELSE /\ OnPrimaryFailure(s, "mark", <<>>)
            /\ UNCHANGED meetingsDb

\* A click on the card's "Mark Attendance" button.
MarkAttendance(s, i, ok) ==
    /\ OnMeetings(s)
    /\ CanStart(s)
    /\ i \in DOMAIN meetings[s]
    /\ MarkButtonShown(s, meetings[s][i])
    /\ handleMarkAttendance(s, meetings[s][i].id, principal[s],
                            DisplayName(principal[s]), ok)
    /\ UNCHANGED <<usersDb, nextMeetingId, tasksDb, nextTaskId, notifs, now,
                   principal, userRole, page, meetings, tasks, users, usersFetch,
                   editingMeeting, selectedTask>>
    /\ UNCHANGED ctxVars

\* ------------------------------------------------------------- edit, delete
\* openEditModal(meeting) for the i-th meeting of the list.
openEditModal(s, i) ==
    /\ OnMeetings(s)
    /\ pc[s] = Idle
    /\ i \in DOMAIN meetings[s]
    /\ editingMeeting[s] = 0
    /\ editingMeeting' = [editingMeeting EXCEPT ![s] = meetings[s][i].id]
    /\ UNCHANGED <<storeVars, now, ops, principal, userRole, page, meetings, tasks,
                   users, usersFetch, inflight, pc, success, error, selectedTask>>
    /\ UNCHANGED ctxVars

\* The edit button of a card, rendered when canEdit(meeting).
OpenEditModal(s, i) ==
    /\ i \in DOMAIN meetings[s]
    /\ canEdit(s, meetings[s][i])
    /\ openEditModal(s, i)

\* handleUpdateMeeting: updateDoc replaces title and date by what the form
\* holds (any title, any date and time the user left in it) and leaves every
\* other field of the document as it is.
handleUpdateMeeting(s, title, date, ok) ==
    /\ OnMeetings(s)
    /\ CanStart(s)
    /\ editingMeeting[s] # 0
    /\ IF ok /\ editingMeeting[s] \in DOMAIN meetingsDb
       THEN /\ meetingsDb' = [meetingsDb EXCEPT ![editingMeeting[s]] =
                                [@ EXCEPT !.title = title, !.date = date]]
            /\ editingMeeting' = [editingMeeting EXCEPT ![s] = 0]
            /\ Proceed(s, "updateMeeting", <<>>)
            /\ UNCHANGED error
       ELSE /\ OnPrimaryFailure(s, "updateMeeting", <<>>)
            /\ UNCHANGED <<meetingsDb, editingMeeting>>
    /\ UNCHANGED <<usersDb, nextMeetingId, tasksDb, nextTaskId, notifs, now,
                   principal, userRole, page, meetings, tasks, users, usersFetch,
                   selectedTask>>
    /\ UNCHANGED ctxVars

\* handleDeleteMeeting(meetingId) after window.confirm (deleting a missing
\* document resolves too).
handleDeleteMeeting(s, meetingId, ok) ==
    /\ OnMeetings(s)
    /\ CanStart(s)
    /\ IF ok
       THEN /\ meetingsDb' = [j \in DOMAIN meetingsDb \ {meetingId} |->
                                meetingsDb[j]]
            /\ Proceed(s, "deleteMeeting", <<>>)
            /\ UNCHANGED error
       ELSE /\ OnPrimaryFailure(s, "deleteMeeting", <<>>)
            /\ UNCHANGED meetingsDb
    /\ UNCHANGED <<usersDb, nextMeetingId, tasksDb, nextTaskId, notifs, now,
                   principal, userRole, page, meetings, tasks, users, usersFetch,
                   editingMeeting, selectedTask>>
    /\ UNCHANGED ctxVars

\* The delete button of a card, rendered when canEdit(meeting).
DeleteMeeting(s, i, ok) ==
    /\ i \in DOMAIN meetings[s]
    /\ canEdit(s, meetings[s][i])
    /\ handleDeleteMeeting(s, meetings[s][i].id, ok)

\* ------------------------------------------------------------- Tasks page
OnTasks(s) == page[s] = "tasks" /\ principal[s] # NoUser

\* Array.prototype.sort((a, b) => b.createdAt - a.createdAt): stable.
RECURSIVE InsertByCreatedAtDesc(_, _)
InsertByCreatedAtDesc(seq, t) ==
    IF seq = <<>> THEN <<t>>
    ELSE IF Head(seq).createdAt >= t.createdAt
         THEN <<Head(seq)>> \o InsertByCreatedAtDesc(Tail(seq), t)
         ELSE <<t>> \o seq

RECURSIVE SortByCreatedAtDesc(_)
SortByCreatedAtDesc(seq) ==
    IF seq = <<>> THEN <<>>
    ELSE InsertByCreatedAtDesc(SortByCreatedAtDesc(SubSeq(seq, 1, Len(seq) - 1)),
                               seq[Len(seq)])

\* tasksData of fetchTasks: a member's query is where('assignedTo', '==', uid),
\* everybody else's is the whole collection; sorted by createdAt.
TasksData(db, uid, role) ==
    SortByCreatedAtDesc(
        SelectSeq(DocsUpTo(db, MaxTasks + 1),
                  LAMBDA t : role # "member" \/ t.assignedTo = uid))

\* fetchTasks, getDocs resolved: setTasks(sorted documents).
FetchTasksDone(s) ==
    /\ OnTasks(s)
    /\ inflight[s]
    /\ inflight' = [inflight EXCEPT ![s] = FALSE]
    /\ tasks' = [tasks EXCEPT ![s] = TasksData(tasksDb, principal[s], userRole[s])]
    /\ UNCHANGED <<storeVars, now, ops, principal, userRole, page, meetings, users,
                   usersFetch, pc, success, error, editingMeeting, selectedTask>>
    /\ UNCHANGED ctxVars

\* The document addDoc(collection(db, 'tasks'), ...) writes; assignedByName is
\* userData?.displayName, the profile the session holds of its user.
NewTaskDoc(title, assignedTo, by) ==
    [title |-> title, assignedTo |-> assignedTo, assignedBy |-> by,
     assignedByName |-> DisplayName(by),
     status |-> "pending", createdAt |-> now, notes |-> <<>>]

\* A createNotification call addressed to the creating user.
TaskNotificationsToCreator(s, assignedTo, title) ==
    <<NotificationDoc(principal[s], "New Task Assigned", title, "task")>>

\* The createNotification call of handleCreateTask:
\* createNotification(formData.assignedTo, 'New Task Assigned', ..., 'task').
TaskNotifications(s, assignedTo, title) ==
    <<NotificationDoc(assignedTo, "New Task Assigned", title, "task")>>

\* handleCreateTask: the assignee is one of the options of the select, which
\* are the users the component holds.  Without a title it sets the error
\* banner and returns; otherwise setError(''), addDoc, and then
\* createNotification to the assignee; the function looks at no role.  `ok`
\* is whether addDoc resolved.
handleCreateTask(s, title, assignedTo, ok) ==
    /\ OnTasks(s)
    /\ CanStart(s)
    /\ assignedTo \in Range(users[s])
    /\ nextTaskId <= MaxTasks
    /\ IF title = ""
       THEN /\ error' = [error EXCEPT ![s] = "Please fill all required fields"]
            /\ UNCHANGED <<tasksDb, nextTaskId, pc, success, inflight>>
       ELSE IF ok
       THEN /\ tasksDb' = (nextTaskId :> NewTaskDoc(title, assignedTo, principal[s])) @@ tasksDb
            /\ nextTaskId' = nextTaskId + 1
            /\ Proceed(s, "createTask", TaskNotifications(s, assignedTo, title))
            /\ error' = [error EXCEPT ![s] = ""]
       ELSE /\ OnPrimaryFailure(s, "createTask", TaskNotifications(s, assignedTo, title))
            /\ UNCHANGED <<tasksDb, nextTaskId>>
    /\ UNCHANGED <<usersDb, meetingsDb, nextMeetingId, notifs, now, principal,
                   userRole, page, meetings, tasks, users, usersFetch,
                   editingMeeting, selectedTask>>
    /\ UNCHANGED ctxVars

\* The modal's Create button; the "New Task" button that opens the modal is
\* rendered for superadmin and admin.
CreateTask(s, title, assignedTo, ok) ==
    /\ userRole[s] \in {"superadmin", "admin"}
    /\ handleCreateTask(s, title, assignedTo, ok)

\* openNotesModal(task), from the notes button of a task card.
openNotesModal(s, i) ==
    /\ OnTasks(s)
    /\ pc[s] = Idle
    /\ i \in DOMAIN tasks[s]
    /\ selectedTask[s] # tasks[s][i]
    /\ selectedTask' = [selectedTask EXCEPT ![s] = tasks[s][i]]
    /\ UNCHANGED <<storeVars, now, ops, principal, userRole, page, meetings, tasks,
                   users, usersFetch, inflight, pc, success, error, editingMeeting>>
    /\ UNCHANGED ctxVars

\* A write of the notes field that sends the new note alone.
notesOverwritten(seq, x) == <<x>>

\* arrayUnion(x) applied to an array field: x is added unless it is there.
arrayUnion(seq, x) == IF x \in Range(seq) THEN seq ELSE Append(seq, x)

\* The createNotification calls of a handleAddNote that leaves out the
\* comparison of the assignee with the current user.
NoteNotificationsToAssignee(s, task) ==
    (IF task.assignedBy # principal[s]
     THEN <<NotificationDoc(task.assignedBy, "New Task Note", task.title, "task")>>
     ELSE <<>>)
    \o <<NotificationDoc(task.assignedTo, "Task Update", task.title, "task")>>

\* The createNotification calls of handleAddNote, in order: its creator, if
\* that is not the current user, and its assignee, if that is not the current
\* user and the current user is not a member; both as selectedTask has them.
NoteNotifications(s, task) ==
    (IF task.assignedBy # principal[s]
     THEN <<NotificationDoc(task.assignedBy, "New Task Note", task.title, "task")>>
     ELSE <<>>)
    \o (IF task.assignedTo # principal[s] /\ userRole[s] # "member"
        THEN <<NotificationDoc(task.assignedTo, "Task Update", task.title, "task")>>
        ELSE <<>>)

\* handleAddNote, from the notes modal with a note typed in: updateDoc with
\* arrayUnion(newNote) on the selected task, then the notifications.  `ok` is
\* whether updateDoc resolved (it cannot for a document that does not exist).
handleAddNote(s, ok) ==
    LET task == selectedTask[s]
        newNote == [text |-> "note", author |-> principal[s], timestamp |-> now]
    IN
    /\ OnTasks(s)
    /\ CanStart(s)
    /\ task # NoTask
    /\ IF ok /\ task.id \in DOMAIN tasksDb
       THEN /\ Len(tasksDb[task.id].notes) < MaxNotes
            /\ tasksDb' = [tasksDb EXCEPT ![task.id].notes = arrayUnion(@, newNote)]
            /\ Proceed(s, "addNote", NoteNotifications(s, task))
            /\ UNCHANGED error
       ELSE /\ OnPrimaryFailure(s, "addNote", NoteNotifications(s, task))
            /\ UNCHANGED tasksDb
    /\ UNCHANGED <<usersDb, meetingsDb, nextMeetingId, nextTaskId, notifs, now,
                   principal, userRole, page, meetings, tasks, users, usersFetch,
                   editingMeeting, selectedTask>>
    /\ UNCHANGED ctxVars

\* ------------------------------------------------------------- task edits
\* canEditTask(task) and canDeleteTask(task): the role alone decides.
canEditTask(s, task) == userRole[s] \in {"superadmin", "admin"}

canDeleteTask(s, task) == userRole[s] \in {"superadmin", "admin"}

\* openEditModal(task) of the Tasks page: the task is kept as editingTask and
\* its fields fill the form.
openEditTask(s, i) ==
    /\ OnTasks(s)
    /\ pc[s] = Idle
    /\ i \in DOMAIN tasks[s]
    /\ editingTask[s] = NoTask
    /\ editingTask' = [editingTask EXCEPT ![s] = tasks[s][i]]
    /\ UNCHANGED <<storeVars, now, ops, principal, userRole, page, meetings, tasks,
                   users, usersFetch, inflight, pc, success, error, editingMeeting,
                   selectedTask, queries, dashboard, subs, feed, replies>>

\* The edit button of a task card, rendered when canEditTask(task).
OpenEditTask(s, i) ==
    /\ i \in DOMAIN tasks[s]
    /\ canEditTask(s, tasks[s][i])
    /\ openEditTask(s, i)

\* An updateData that names the editor as the one who assigned the task.
UpdateDataWithAssigner(s, title, status, assignedTo) ==
    [title |-> title, status |-> status, assignedTo |-> assignedTo,
     assignedBy |-> principal[s], assignedByName |-> DisplayName(principal[s])]

\* updateData of handleUpdateTask: title and status as the form holds them,
\* and the assignee of the form unless the role is member.
UpdateData(s, title, status, assignedTo) ==
    IF userRole[s] # "member"
    THEN [title |-> title, status |-> status, assignedTo |-> assignedTo]
    ELSE [title |-> title, status |-> status]

\* updateDoc(ref, data): the fields of data replace those of the document.
ApplyUpdate(doc, data) ==
    [f \in DOMAIN doc |-> IF f \in DOMAIN data THEN data[f] ELSE doc[f]]

\* handleUpdateTask, from the modal's Update button: the form holds the title
\* and status the user left in it and, as assignee, the task's own or one of
\* the options of the select.  `ok` is whether updateDoc resolved (it cannot
\* for a document that does not exist).
handleUpdateTask(s, title, status, assignedTo, ok) ==
    /\ OnTasks(s)
    /\ CanStart(s)
    /\ editingTask[s] # NoTask
    /\ assignedTo \in {editingTask[s].assignedTo} \cup Range(users[s])
    /\ IF ok /\ editingTask[s].id \in DOMAIN tasksDb
       THEN /\ tasksDb' = [tasksDb EXCEPT ![editingTask[s].id] =
                              ApplyUpdate(@, UpdateData(s, title, status, assignedTo))]
            /\ editingTask' = [editingTask EXCEPT ![s] = NoTask]
            /\ Proceed(s, "updateTask", <<>>)
            /\ error' = [error EXCEPT ![s] = ""]
       ELSE /\ OnPrimaryFailure(s, "updateTask", <<>>)
            /\ UNCHANGED <<tasksDb, editingTask>>
    /\ UNCHANGED <<usersDb, meetingsDb, nextMeetingId, nextTaskId, notifs, now,
                   principal, userRole, page, meetings, tasks, users, usersFetch,
                   editingMeeting, selectedTask, queries, dashboard, subs, feed, replies>>

\* The modal's Update button, the status select left as openEditModal filled
\* it.
UpdateTask(s, title, assignedTo, ok) ==
    /\ editingTask[s] # NoTask
    /\ handleUpdateTask(s, title, editingTask[s].status, assignedTo, ok)

\* handleDeleteTask(taskId) after window.confirm (deleting a missing document
\* resolves too).
handleDeleteTask(s, taskId, ok) ==
    /\ OnTasks(s)
    /\ CanStart(s)
    /\ IF ok
       THEN /\ tasksDb' = [j \in DOMAIN tasksDb \ {taskId} |-> tasksDb[j]]
            /\ Proceed(s, "deleteTask", <<>>)
            /\ UNCHANGED error
       ELSE /\ OnPrimaryFailure(s, "deleteTask", <<>>)
            /\ UNCHANGED tasksDb
    /\ UNCHANGED <<usersDb, meetingsDb, nextMeetingId, nextTaskId, notifs, now,
                   principal, userRole, page, meetings, tasks, users, usersFetch,
                   editingMeeting, selectedTask>>
    /\ UNCHANGED ctxVars

\* The delete button of a task card, rendered when canDeleteTask(task).
DeleteTask(s, i, ok) ==
    /\ i \in DOMAIN tasks[s]
    /\ canDeleteTask(s, tasks[s][i])
    /\ handleDeleteTask(s, tasks[s][i].id, ok)

\* handleQuickStatusUpdate(taskId, newStatus): updateDoc(ref, {status}).
handleQuickStatusUpdate(s, taskId, newStatus, ok) ==
    /\ OnTasks(s)
    /\ CanStart(s)
    /\ IF ok /\ taskId \in DOMAIN tasksDb
       THEN /\ tasksDb' = [tasksDb EXCEPT ![taskId] =
                              ApplyUpdate(@, [status |-> newStatus])]
            /\ Proceed(s, "status", <<>>)
            /\ UNCHANGED error
       ELSE /\ OnPrimaryFailure(s, "status", <<>>)
            /\ UNCHANGED tasksDb
    /\ UNCHANGED <<usersDb, meetingsDb, nextMeetingId, nextTaskId, notifs, now,
                   principal, userRole, page, meetings, tasks, users, usersFetch,
                   editingMeeting, selectedTask>>
    /\ UNCHANGED ctxVars

\* The status select of a task card, rendered for a member on a task of the
\* list that is assigned to them; onChange fires for another status than the
\* one shown.
QuickStatus(s, i, newStatus, ok) ==
    /\ i \in DOMAIN tasks[s]
    /\ userRole[s] = "member"
    /\ tasks[s][i].assignedTo = principal[s]
    /\ newStatus # tasks[s][i].status
    /\ handleQuickStatusUpdate(s, tasks[s][i].id, newStatus, ok)

\* ------------------------------------------------------------- routes
\* The routes of App: /setup and /login are given their page directly, the
\* others through ProtectedRoute.
Paths == {"setup", "login", "dashboard", "tasks", "team", "meetings", "settings"}

\* allowedRoles of the ProtectedRoute of a route.
AllowedRoles(path) ==
    IF path = "team" THEN {"superadmin", "admin"}
    ELSE IF path \in {"dashboard", "tasks", "meetings", "settings"}
    THEN {"superadmin", "admin", "member"}
    ELSE {}

\* ProtectedRoute: <Navigate to="/login"> without a current user,
\* <Navigate to="/dashboard"> for a role that is set (a null userRole is
\* falsy) and not one of allowedRoles, its children otherwise.
ProtectedRoute(currentUser, role, allowedRoles) ==
    IF currentUser = NoUser THEN "login"
    ELSE IF role # NoRole /\ role \notin allowedRoles THEN "dashboard"
    ELSE "children"

\* The page the router shows for a path: the page of the route, or the one a
\* <Navigate> of its ProtectedRoute leads to.
RECURSIVE RouteElement(_, _, _)
RouteElement(path, currentUser, role) ==
    IF path \in {"setup", "login"} THEN path
    ELSE LET out == ProtectedRoute(currentUser, role, AllowedRoles(path))
         IN  IF out = "children" THEN path
             ELSE RouteElement(out, currentUser, role)

\* The browser goes to a path (a link of the layout, the address bar): the
\* page shown is unmounted and the page of the route mounts with its initial
\* state; the useEffect of the Meetings page sends fetchMeetings and
\* fetchUsers, that of the Tasks page fetchTasks and, unless the role is
\* member, fetchUsers, that of the Dashboard fetchDashboardData.
Navigate(s, path) ==
    LET to == RouteElement(path, principal[s], userRole[s]) IN
    /\ pc[s] = Idle
    /\ to # page[s]
    /\ page' = [page EXCEPT ![s] = to]
    /\ meetings' = [meetings EXCEPT ![s] = <<>>]
    /\ tasks' = [tasks EXCEPT ![s] = <<>>]
    /\ users' = [users EXCEPT ![s] = <<>>]
    /\ usersFetch' = [usersFetch EXCEPT ![s] =
                        IF \/ to = "meetings"
                           \/ to = "tasks" /\ userRole[s] # "member"
                        THEN "pending" ELSE "none"]
    /\ inflight' = [inflight EXCEPT ![s] = (to = "meetings")]
    /\ queries' = [queries EXCEPT ![s] =
                     IF to \in {"tasks", "dashboard"} THEN {userRole[s]} ELSE {}]
    /\ success' = [success EXCEPT ![s] = ""]
    /\ error' = [error EXCEPT ![s] = ""]
    /\ editingMeeting' = [editingMeeting EXCEPT ![s] = 0]
    /\ selectedTask' = [selectedTask EXCEPT ![s] = NoTask]
    /\ editingTask' = [editingTask EXCEPT ![s] = NoTask]
    /\ dashboard' = [dashboard EXCEPT ![s] = NoDashboard]
    /\ UNCHANGED <<storeVars, now, ops, principal, userRole, pc, subs, feed, replies>>

\* ------------------------------------------------------------- session, lists
\* The session resolver has loaded the role of the signed-in user: userRole
\* goes from null to the role of the user's document.  The pages' useEffect
\* depends on [currentUser, userRole] and runs again: the mounted page sends
\* its fetch with the role it now sees, and the Tasks page sends fetchUsers
\* unless the role is member.  ProtectedRoute renders again with the role:
\* the Team page, the one route that is not open to every role, gives way to
\* the Dashboard, which mounts and sends its fetch.
RoleResolved(s) ==
    LET role == RoleOf(principal[s])
        to == RouteElement(page[s], principal[s], role)
    IN
    /\ principal[s] # NoUser
    /\ userRole[s] = NoRole
    /\ userRole' = [userRole EXCEPT ![s] = role]
    /\ page' = [page EXCEPT ![s] = to]
    /\ queries' = [queries EXCEPT ![s] =
                     IF to # page[s] THEN {role}
                     ELSE IF to \in {"tasks", "dashboard"} THEN @ \cup {role}
                     ELSE @]
    /\ usersFetch' = [usersFetch EXCEPT ![s] =
                        IF page[s] = "tasks" /\ role # "member"
                        THEN "pending" ELSE @]
    /\ UNCHANGED <<storeVars, now, ops, principal, meetings, tasks, users,
                   inflight, pc, success, error, editingMeeting, selectedTask,
                   editingTask, dashboard, subs, feed, replies>>

\* fetchTasks sent by the useEffect when userRole was `role`, getDocs resolved:
\* the query was built from that role.
FetchTasksAnswered(s, role) ==
    /\ OnTasks(s)
    /\ role \in queries[s]
    /\ queries' = [queries EXCEPT ![s] = @ \ {role}]
    /\ tasks' = [tasks EXCEPT ![s] = TasksData(tasksDb, principal[s], role)]
    /\ UNCHANGED <<storeVars, now, ops, principal, userRole, page, meetings, users,
                   usersFetch, inflight, pc, success, error, editingMeeting,
                   selectedTask, editingTask, dashboard, subs, feed, replies>>

Reverse(seq) == [i \in DOMAIN seq |-> seq[Len(seq) + 1 - i]]

Take(seq, n) == SubSeq(seq, 1, IF Len(seq) < n THEN Len(seq) ELSE n)

\* tasks of fetchDashboardData: the same role-dependent query as fetchTasks,
\* in document order.
DashboardTasks(db, uid, role) ==
    SelectSeq(DocsUpTo(db, MaxTasks + 1),
              LAMBDA t : role # "member" \/ t.assignedTo = uid)

\* recentTasksData of fetchDashboardData: query(collection(db, 'tasks'),
\* orderBy('createdAt', 'desc'), limit(5)); equal createdAt in descending
\* document id.
RecentTasksData(db) ==
    Take(SortByCreatedAtDesc(Reverse(DocsUpTo(db, MaxTasks + 1))), RecentLimit)

RECURSIVE InsertByDateAsc(_, _)
InsertByDateAsc(seq, m) ==
    IF seq = <<>> THEN <<m>>
    ELSE IF Head(seq).date <= m.date
         THEN <<Head(seq)>> \o InsertByDateAsc(Tail(seq), m)
         ELSE <<m>> \o seq

\* Array.prototype.sort((a, b) => a.date.getTime() - b.date.getTime()): stable.
RECURSIVE SortByDateAsc(_)
SortByDateAsc(seq) ==
    IF seq = <<>> THEN <<>>
    ELSE InsertByDateAsc(SortByDateAsc(SubSeq(seq, 1, Len(seq) - 1)), seq[Len(seq)])

\* An upcoming filter that keeps the meetings of this very instant.
UpcomingFromNow(db, t) ==
    Take(SortByDateAsc(SelectSeq(DocsUpTo(db, MaxDashMeetings + 1),
                                 LAMBDA m : m.date >= t)),
         UpcomingLimit)

\* upcoming of fetchDashboardData at clock value t:
\* meetings.filter(m => m.date > now).sort(by date ascending).slice(0, 5)
Upcoming(db, t) ==
    Take(SortByDateAsc(SelectSeq(DocsUpTo(db, MaxDashMeetings + 1),
                                 LAMBDA m : m.date > t)),
         UpcomingLimit)

\* The numbers setStats stores.
Stats(taskList, upcoming, userDocs) ==
    [totalTasks |-> Len(taskList),
     completedTasks |-> Len(SelectSeq(taskList, LAMBDA t : t.status = "completed")),
     upcomingMeetings |-> Len(upcoming),
     teamMembers |-> Cardinality(userDocs)]

\* fetchDashboardData sent by the useEffect when userRole was `role`, all its
\* getDocs resolved: the statistics are taken from `tasks`, from the upcoming
\* meetings and from the users; the lists shown are recentTasks and upcoming.
FetchDashboardAnswered(s, role) ==
    /\ page[s] = "dashboard"
    /\ principal[s] # NoUser
    /\ role \in queries[s]
    /\ queries' = [queries EXCEPT ![s] = @ \ {role}]
    /\ dashboard' = [dashboard EXCEPT ![s] =
                       [loaded |-> TRUE,
                        tasks |-> DashboardTasks(tasksDb, principal[s], role),
                        recentTasks |-> RecentTasksData(tasksDb),
                        upcomingMeetings |-> Upcoming(meetingsDb, now),
                        stats |-> Stats(DashboardTasks(tasksDb, principal[s], role),
                                        Upcoming(meetingsDb, now), usersDb)]]
    /\ UNCHANGED <<storeVars, now, ops, principal, userRole, page, meetings, tasks,
                   users, usersFetch, inflight, pc, success, error, editingMeeting,
                   selectedTask, editingTask, subs, feed, replies>>

\* ------------------------------------------------------------- notification feed
\* snapshot.docs of the feed query: where('userId', '==', uid),
\* orderBy('createdAt', 'desc'), limit(20); equal createdAt in descending
\* document id.
FeedData(db, uid) ==
    Take(SortByCreatedAtDesc(Reverse(SelectSeq(DocsUpTo(db, Len(db)),
                                               LAMBDA n : n.userId = uid))),
         FeedLimit)

\* A useEffect whose cleanup is missing: the listeners of earlier users stay.
SubscriptionsKept(old, u) == old \cup (IF u = NoUser THEN {} ELSE {u})

\* The listeners after the useEffect has run for currentUser = u: the cleanup
\* of the previous run (return unsubscribe) has ended the listener it had
\* started; without a user the effect returns before onSnapshot, with one it
\* starts the listener of the user's query.
Subscriptions(old, u) == IF u = NoUser THEN {} ELSE {u}

\* `notifications` after the useEffect has run for currentUser = u:
\* setNotifications([]) without a user, untouched otherwise.
NotificationsOnUser(list, u) == IF u = NoUser THEN <<>> ELSE list

\* currentUser of session s becomes u, with the role of u, and the
\* NotificationProvider's useEffect ([currentUser]) runs.
OnCurrentUser(s, u) ==
    /\ principal' = [principal EXCEPT ![s] = u]
    /\ userRole' = [userRole EXCEPT ![s] = IF u = NoUser THEN NoRole ELSE RoleOf(u)]
    /\ subs' = [subs EXCEPT ![s] = Subscriptions(@, u)]
    /\ feed' = [feed EXCEPT ![s] = NotificationsOnUser(@, u)]
    /\ UNCHANGED replies

\* logout.
SignOut(s) ==
    /\ principal[s] # NoUser
    /\ ops > 0
    /\ ops' = ops - 1
    /\ OnCurrentUser(s, NoUser)
    /\ UNCHANGED <<storeVars, now, page, meetings, tasks, users, usersFetch,
                   inflight, pc, success, error, editingMeeting, selectedTask,
                   editingTask, queries, dashboard>>

\* login of a user that has a document, in a session nobody is signed in to.
SignIn(s, u) ==
    /\ principal[s] = NoUser
    /\ u \in usersDb
    /\ ops > 0
    /\ ops' = ops - 1
    /\ OnCurrentUser(s, u)
    /\ UNCHANGED <<storeVars, now, page, meetings, tasks, users, usersFetch,
                   inflight, pc, success, error, editingMeeting, selectedTask,
                   editingTask, queries, dashboard>>

\* createUserAsAdmin up to the end of its setDoc: getApp() is the application's
\* own app, so createUserWithEmailAndPassword signs the new user in to the
\* session of the caller; the user document is written.  The signOut that
\* ends the function is SignOut.
createUserAsAdmin(s, u) ==
    /\ principal[s] # NoUser
    /\ u \in Uids \ usersDb
    /\ ops > 0
    /\ ops' = ops - 1
    /\ usersDb' = usersDb \cup {u}
    /\ OnCurrentUser(s, u)
    /\ UNCHANGED <<meetingsDb, nextMeetingId, tasksDb, nextTaskId, notifs, now, page,
                   meetings, tasks, users, usersFetch, inflight, pc, success, error,
                   editingMeeting, selectedTask, editingTask, queries, dashboard>>

\* createUserAsAdmin from the Team page, whose route ProtectedRoute gives to
\* superadmin and admin.
CreateUser(s, u) ==
    /\ userRole[s] \in {"superadmin", "admin"}
    /\ createUserAsAdmin(s, u)

\* createSuperAdmin of the Setup page, whose route /setup is outside
\* ProtectedRoute: createUserWithEmailAndPassword on the application's auth
\* makes the new user the current user of the session, whoever was signed in
\* or nobody, and setDoc writes the user document with role 'superadmin'.
createSuperAdmin(s, u) ==
    /\ u \in Uids \ usersDb
    /\ RoleOf(u) = "superadmin"
    /\ ops > 0
    /\ ops' = ops - 1
    /\ usersDb' = usersDb \cup {u}
    /\ OnCurrentUser(s, u)
    /\ UNCHANGED <<meetingsDb, nextMeetingId, tasksDb, nextTaskId, notifs, now, page,
                   meetings, tasks, users, usersFetch, inflight, pc, success, error,
                   editingMeeting, selectedTask, editingTask, queries, dashboard>>

\* createNotification(userId, ...) called by a handler of some client, addDoc
\* resolved; the clock has moved on by the next call.
createNotification(userId) ==
    /\ Len(notifs) < MaxNotifs
    /\ notifs' = Append(notifs, NotificationDoc(userId, "New Task Assigned", "t1", "task"))
    /\ now' = now + 1
    /\ UNCHANGED <<usersDb, meetingsDb, nextMeetingId, tasksDb, nextTaskId, ops,
                   sessVars, ctxVars>>

\* The onSnapshot callback of a listener of session s:
\* setNotifications(documents of the listener's query).
Snapshot(s, u) ==
    /\ u \in subs[s]
    /\ feed[s] # FeedData(notifs, u)
    /\ feed' = [feed EXCEPT ![s] = FeedData(notifs, u)]
    /\ UNCHANGED <<storeVars, now, ops, sessVars, editingTask, queries, dashboard, subs,
                   replies>>

\* An updateDoc that flips the read flag.
ApplyReadToggle(doc) == [doc EXCEPT !.read = ~@]

\* updateDoc(doc(db, 'notifications', id), { read: true }) on the document.
ApplyRead(doc) == [doc EXCEPT !.read = TRUE]

\* The updateDoc calls a handler has sent and awaits.
Awaiting(s, op, ids) ==
    IF ids = {} THEN pc' = pc
    ELSE pc' = [pc EXCEPT ![s] = [op |-> op, phase |-> "write", pending |-> ids]]

\* markAsRead(notificationId) for the i-th notification of the feed: updateDoc
\* is sent.
markAsRead(s, i) ==
    /\ CanStart(s)
    /\ i \in DOMAIN feed[s]
    /\ Awaiting(s, "markAsRead", {feed[s][i].id})
    /\ UNCHANGED <<storeVars, now, principal, userRole, page, meetings, tasks, users,
                   usersFetch, inflight, success, error, editingMeeting, selectedTask,
                   ctxVars>>

\* unreadNotifs of markAllAsRead: notifications.filter(n => !n.read)
unreadNotifs(list) == SelectSeq(list, LAMBDA n : ~n.read)

\* markAllAsRead: one updateDoc per unread notification of `notifications`,
\* all sent before any is awaited (Promise.all).
markAllAsRead(s) ==
    /\ CanStart(s)
    /\ Awaiting(s, "markAllAsRead", IdsOf(unreadNotifs(feed[s])))
    /\ UNCHANGED <<storeVars, now, principal, userRole, page, meetings, tasks, users,
                   usersFetch, inflight, success, error, editingMeeting, selectedTask,
                   ctxVars>>

\* One of the updateDoc calls a session awaits has been applied by the store.
UpdateReadDone(s, id) ==
    /\ pc[s].phase = "write"
    /\ id \in pc[s].pending
    /\ notifs' = [notifs EXCEPT ![id] = ApplyRead(@)]
    /\ pc' = [pc EXCEPT ![s] =
                IF pc[s].pending = {id} THEN Idle
                ELSE [pc[s] EXCEPT !.pending = @ \ {id}]]
    /\ UNCHANGED <<usersDb, meetingsDb, nextMeetingId, tasksDb, nextTaskId, now, ops,
                   principal, userRole, page, meetings, tasks, users, usersFetch,
                   inflight, success, error, editingMeeting, selectedTask, ctxVars>>

\* ------------------------------------------------------------- Meetings spec
\* The users that are signed in have their documents; every session has just
\* mounted its page: the useEffect has sent the list fetch and fetchUsers, nothing has
\* arrived.
InitStore(calls) ==
    /\ usersDb = Range(principal)
    /\ meetingsDb = <<>>
    /\ nextMeetingId = 1
    /\ tasksDb = <<>>
    /\ nextTaskId = 1
    /\ notifs = <<>>
    /\ now = 0
    /\ ops = calls

InitSession(pages) ==
    /\ principal \in Logins
    /\ userRole = [s \in Sessions |-> RoleOf(principal[s])]
    /\ page \in [Sessions -> pages]
    /\ meetings = [s \in Sessions |-> <<>>]
    /\ tasks = [s \in Sessions |-> <<>>]
    /\ users = [s \in Sessions |-> <<>>]
    /\ usersFetch = [s \in Sessions |->
                       IF page[s] = "tasks" /\ userRole[s] = "member"
                       THEN "none" ELSE "pending"]
    /\ inflight = [s \in Sessions |-> TRUE]
    /\ pc = [s \in Sessions |-> Idle]
    /\ success = [s \in Sessions |-> ""]
    /\ error = [s \in Sessions |-> ""]
    /\ editingMeeting = [s \in Sessions |-> 0]
    /\ selectedTask = [s \in Sessions |-> NoTask]
    /\ editingTask = [s \in Sessions |-> NoTask]
    /\ queries = [s \in Sessions |-> {}]
    /\ dashboard = [s \in Sessions |-> NoDashboard]
    /\ subs = [s \in Sessions |-> {principal[s]}]
    /\ feed = [s \in Sessions |-> <<>>]
    /\ replies = [s \in Sessions |-> <<>>]

\* The Meetings page under concurrent sessions.  The users fetch is not answered
\* within these runs, so handleCreateMeeting has nobody to notify; SpecFx covers
\* the notification writes.
InitMeet == InitSession({"meetings"}) /\ InitStore(MaxOps)

NextMeet ==
    \E s \in Sessions :
        \/ FetchMeetingsDone(s)
        \/ \E title \in Titles, date \in Dates, ok \in BOOLEAN :
              CreateMeeting(s, title, date, ok)
        \/ \E i \in 1 .. MaxMeetings, ok \in BOOLEAN : MarkAttendance(s, i, ok)
        \/ \E i \in 1 .. MaxMeetings : OpenEditModal(s, i)
        \/ \E title \in Titles, date \in Dates, ok \in BOOLEAN :
              handleUpdateMeeting(s, title, date, ok)
        \/ \E i \in 1 .. MaxMeetings, ok \in BOOLEAN : DeleteMeeting(s, i, ok)

SpecMeet == InitMeet /\ [][NextMeet]_vars

\* ------------------------------------------------------------- effects spec
\* Creation of meetings and tasks and notes on tasks, with the notification
\* writes that follow them, each of which may be rejected.  Each session is on
\* one of the two pages; fetchUsers is answered, or rejected, at any time.
InitFx == InitSession({"meetings", "tasks"}) /\ InitStore(MaxFxOps)

NextFx ==
    \E s \in Sessions :
        \/ FetchUsersDone(s)
        \/ FetchUsersFail(s)
        \/ FetchTasksDone(s)
        \/ \E title \in Titles, date \in Dates, ok \in BOOLEAN :
              CreateMeeting(s, title, date, ok)
        \/ \E title \in Titles, assignedTo \in Uids, ok \in BOOLEAN :
              CreateTask(s, title, assignedTo, ok)
        \/ \E i \in 1 .. MaxTasks : openNotesModal(s, i)
        \/ \E ok \in BOOLEAN : handleAddNote(s, ok)
        \/ NotifyOk(s)
        \/ NotifyFail(s)

SpecFx == InitFx /\ [][NextFx]_vars

\* ------------------------------------------------------------- Tasks specs
\* The Tasks page under concurrent sessions.  Every user has a document; the
\* store holds one task that a superadmin or admin created with
\* handleCreateTask; every session has mounted the page, fetchUsers has been
\* answered where it was sent, and the first fetchTasks is unanswered.
InitTaskPage ==
    /\ principal \in Logins
    /\ userRole = [s \in Sessions |-> RoleOf(principal[s])]
    /\ page = [s \in Sessions |-> "tasks"]
    /\ meetings = [s \in Sessions |-> <<>>]
    /\ tasks = [s \in Sessions |-> <<>>]
    /\ users = [s \in Sessions |->
                  IF userRole[s] = "member" THEN <<>> ELSE UsersData(Uids)]
    /\ usersFetch = [s \in Sessions |->
                       IF userRole[s] = "member" THEN "none" ELSE "done"]
    /\ inflight = [s \in Sessions |-> TRUE]
    /\ pc = [s \in Sessions |-> Idle]
    /\ success = [s \in Sessions |-> ""]
    /\ error = [s \in Sessions |-> ""]
    /\ editingMeeting = [s \in Sessions |-> 0]
    /\ selectedTask = [s \in Sessions |-> NoTask]
    /\ editingTask = [s \in Sessions |-> NoTask]
    /\ queries = [s \in Sessions |-> {}]
    /\ dashboard = [s \in Sessions |-> NoDashboard]
    /\ subs = [s \in Sessions |-> {principal[s]}]
    /\ feed = [s \in Sessions |-> <<>>]
    /\ replies = [s \in Sessions |-> <<>>]
    /\ usersDb = Uids
    /\ meetingsDb = <<>>
    /\ nextMeetingId = 1
    /\ now = 0
    /\ notifs = <<>>
    /\ ops = MaxTaskOps

InitTask ==
    /\ InitTaskPage
    /\ \E title \in Titles, assignedTo \in Uids, by \in {"u1", "u2"} :
          tasksDb = (1 :> NewTaskDoc(title, assignedTo, by))
    /\ nextTaskId = 2

\* Edits, deletion and status changes of tasks.
NextTask ==
    \E s \in Sessions :
        \/ FetchTasksDone(s)
        \/ \E i \in 1 .. MaxTasks : OpenEditTask(s, i)
        \/ \E title \in Titles, assignedTo \in Uids, ok \in BOOLEAN :
              UpdateTask(s, title, assignedTo, ok)
        \/ \E i \in 1 .. MaxTasks, ok \in BOOLEAN : DeleteTask(s, i, ok)
        \/ \E i \in 1 .. MaxTasks, status \in Statuses, ok \in BOOLEAN :
              QuickStatus(s, i, status, ok)

SpecTask == InitTask /\ [][NextTask]_vars

\* Notes on tasks, with their notification writes, while tasks are edited.
NextNote ==
    \E s \in Sessions :
        \/ FetchTasksDone(s)
        \/ \E i \in 1 .. MaxTasks : OpenEditTask(s, i)
        \/ \E title \in Titles, assignedTo \in Uids, ok \in BOOLEAN :
              UpdateTask(s, title, assignedTo, ok)
        \/ \E i \in 1 .. MaxTasks : openNotesModal(s, i)
        \/ \E ok \in BOOLEAN : handleAddNote(s, ok)
        \/ NotifyOk(s)
        \/ NotifyFail(s)

SpecNote == InitTask /\ [][NextNote]_vars

\* Notes next to edits and status changes of the same task, every write of
\* which the store accepts.  The store holds one task, which the superadmin
\* created for a member.
InitAppend ==
    /\ InitTaskPage
    /\ \E title \in Titles : tasksDb = (1 :> NewTaskDoc(title, "u3", "u1"))
    /\ nextTaskId = 2

NextAppend ==
    \E s \in Sessions :
        \/ FetchTasksDone(s)
        \/ \E i \in 1 .. MaxTasks : openNotesModal(s, i)
        \/ handleAddNote(s, TRUE)
        \/ NotifyOk(s)
        \/ \E i \in 1 .. MaxTasks : OpenEditTask(s, i)
        \/ \E title \in Titles, assignedTo \in Uids : UpdateTask(s, title, assignedTo, TRUE)
        \/ \E i \in 1 .. MaxTasks, status \in Statuses : QuickStatus(s, i, status, TRUE)

SpecAppend == InitAppend /\ [][NextAppend]_vars

\* A task from its creation on: the store starts without tasks.
InitLife ==
    /\ InitTaskPage
    /\ tasksDb = <<>>
    /\ nextTaskId = 1

NextLife ==
    \E s \in Sessions :
        \/ FetchTasksDone(s)
        \/ \E title \in Titles, assignedTo \in Uids, ok \in BOOLEAN :
              CreateTask(s, title, assignedTo, ok)
        \/ NotifyOk(s)
        \/ \E i \in 1 .. MaxTasks : OpenEditTask(s, i)
        \/ \E title \in Titles, assignedTo \in Uids, ok \in BOOLEAN :
              UpdateTask(s, title, assignedTo, ok)
        \/ \E i \in 1 .. MaxTasks, status \in Statuses, ok \in BOOLEAN :
              QuickStatus(s, i, status, ok)

SpecLife == InitLife /\ [][NextLife]_vars

\* ------------------------------------------------------------- lists spec
\* The task lists of the Tasks page and the Dashboard from sign-in on.  Every
\* user has a document and the store holds one task; every session has a
\* signed-in user whose role is not loaded yet (ProtectedRoute renders the
\* page for a null role), and the page's useEffect has sent its first fetch.
InitListPage ==
    /\ principal \in Logins
    /\ userRole = [s \in Sessions |-> NoRole]
    /\ page \in [Sessions -> {"tasks", "dashboard"}]
    /\ meetings = [s \in Sessions |-> <<>>]
    /\ tasks = [s \in Sessions |-> <<>>]
    /\ users = [s \in Sessions |-> <<>>]
    /\ usersFetch = [s \in Sessions |-> IF page[s] = "tasks" THEN "pending" ELSE "none"]
    /\ inflight = [s \in Sessions |-> FALSE]
    /\ pc = [s \in Sessions |-> Idle]
    /\ success = [s \in Sessions |-> ""]
    /\ error = [s \in Sessions |-> ""]
    /\ editingMeeting = [s \in Sessions |-> 0]
    /\ selectedTask = [s \in Sessions |-> NoTask]
    /\ editingTask = [s \in Sessions |-> NoTask]
    /\ queries = [s \in Sessions |-> {NoRole}]
    /\ dashboard = [s \in Sessions |-> NoDashboard]
    /\ subs = [s \in Sessions |-> {principal[s]}]
    /\ feed = [s \in Sessions |-> <<>>]
    /\ replies = [s \in Sessions |-> <<>>]
    /\ usersDb = Uids
    /\ notifs = <<>>
    /\ ops = 0

InitList ==
    /\ InitListPage
    /\ meetingsDb = <<>>
    /\ nextMeetingId = 1
    /\ now = 0
    /\ \E title \in Titles, assignedTo \in Uids, by \in {"u1", "u2"} :
          tasksDb = (1 :> NewTaskDoc(title, assignedTo, by))
    /\ nextTaskId = 2

NextList ==
    \E s \in Sessions :
        \/ RoleResolved(s)
        \/ \E role \in {NoRole, "superadmin", "admin", "member"} :
              FetchTasksAnswered(s, role)
        \/ \E role \in {NoRole, "superadmin", "admin", "member"} :
              FetchDashboardAnswered(s, role)

SpecList == InitList /\ [][NextList]_vars

\* ------------------------------------------------------------- operations spec
\* The operations of the Meetings page called by whoever is signed in, whatever
\* the page renders for them: what each handler itself accepts.
InitCall == InitSession({"meetings"}) /\ InitStore(MaxFxOps)

NextCall ==
    \E s \in Sessions :
        \/ FetchMeetingsDone(s)
        \/ \E title \in FormTitles, date \in Dates, ok \in BOOLEAN :
              handleCreateMeeting(s, title, date, ok)
        \/ \E i \in 1 .. MaxMeetings : openEditModal(s, i)
        \/ \E title \in FormTitles, date \in Dates, ok \in BOOLEAN :
              handleUpdateMeeting(s, title, date, ok)
        \/ \E i \in 1 .. MaxMeetings, ok \in BOOLEAN :
              /\ i \in DOMAIN meetings[s]
              /\ handleDeleteMeeting(s, meetings[s][i].id, ok)

SpecCall == InitCall /\ [][NextCall]_vars

\* ------------------------------------------------------------- Dashboard spec
\* The Dashboard over stores of meetings: a superadmin and a member are on
\* the Dashboard, the store holds up to MaxDashMeetings meetings, each at one
\* of the instants DashDates, and the clock stands at the first of them.
InitDash ==
    /\ InitListPage
    /\ principal = [s \in Sessions |-> IF s = "A" THEN "u1" ELSE "u3"]
    /\ page = [s \in Sessions |-> "dashboard"]
    /\ \E n \in 0 .. MaxDashMeetings :
          /\ meetingsDb \in [1 .. n -> {NewMeetingDoc("t1", date, "u1") : date \in DashDates}]
          /\ nextMeetingId = n + 1
    /\ now = 0
    /\ tasksDb = <<>>
    /\ nextTaskId = 1

NextDash ==
    \E s \in Sessions :
        \/ RoleResolved(s)
        \/ \E role \in {NoRole, "superadmin", "admin", "member"} :
              FetchDashboardAnswered(s, role)

SpecDash == InitDash /\ [][NextDash]_vars

\* ------------------------------------------------------------- feed spec
\* The notification feed of two sessions: notifications are created for any
\* user at any time, snapshots arrive at any time, users sign out and in, an
\* administrator creates a user.
InitFeed == InitSession({"dashboard"}) /\ InitStore(MaxFeedOps)

NextFeed ==
    \/ \E u \in Uids : createNotification(u)
    \/ \E s \in Sessions :
        \/ \E u \in Uids : Snapshot(s, u)
        \/ \E i \in 1 .. MaxNotifs : markAsRead(s, i)
        \/ markAllAsRead(s)
        \/ \E id \in 1 .. MaxNotifs : UpdateReadDone(s, id)
        \/ SignOut(s)
        \/ \E u \in Uids : SignIn(s, u)
        \/ \E u \in Uids : createUserAsAdmin(s, u)

SpecFeed == InitFeed /\ [][NextFeed]_vars

\* ------------------------------------------------------------- users spec
\* Who is signed in and which user documents exist: sign-out, sign-in, the
\* Team page's user creation and the Setup page, with notifications arriving
\* in the feeds.
InitUsers == InitSession({"dashboard"}) /\ InitStore(MaxFeedOps)

NextUsers ==
    \/ \E u \in Uids : createNotification(u)
    \/ \E s \in Sessions :
        \/ \E u \in Uids : Snapshot(s, u)
        \/ SignOut(s)
        \/ \E u \in Uids : SignIn(s, u)
        \/ \E u \in Uids : CreateUser(s, u)
        \/ \E u \in Uids : createSuperAdmin(s, u)

SpecUsers == InitUsers /\ [][NextUsers]_vars

\* ------------------------------------------------------------- attendance claims
Occurrences(seq, x) == Cardinality({i \in DOMAIN seq : seq[i] = x})

UidsOf(attendeesData) == [i \in DOMAIN attendeesData |-> attendeesData[i].uid]

\* C1: in every reachable store state a uid appears at most once in a meeting's
\* attendees and at most once in its attendeesData, also when the same user
\* marks attendance from two sessions that both hold a copy of the meeting
\* taken before either write commits.
C1_UidAtMostOnce ==
    \A id \in DOMAIN meetingsDb : \A u \in Uids :
        /\ Occurrences(meetingsDb[id].attendees, u) <= 1
        /\ Occurrences(UidsOf(meetingsDb[id].attendeesData), u) <= 1

\* Both sessions of one user have marked attendance for the meeting; the second
\* mark was sent from a copy without the first (the button is not rendered
\* otherwise).
C1_Witness ==
    /\ principal["A"] = principal["B"]
    /\ success["A"] = SuccessText("mark")
    /\ success["B"] = SuccessText("mark")
    /\ 1 \in DOMAIN meetingsDb
    /\ meetingsDb[1].attendees = <<principal["A"]>>

\* C2 (as claimed): a call of handleMarkAttendance by a session whose earlier
\* mark has committed (its success banner says so and the document holds the
\* user) ends as "already marked" and writes nothing, even before the refresh
\* that follows the first call has arrived.
C2_SecondCallAlreadyMarked ==
    [][\A s \in Sessions, i \in 1 .. MaxMeetings :
         ( /\ MarkAttendance(s, i, TRUE)
           /\ success[s] = SuccessText("mark")
           /\ meetings[s][i].id \in DOMAIN meetingsDb
           /\ principal[s] \in Range(meetingsDb[meetings[s][i].id].attendees) )
         => ( /\ error'[s] = "Attendance already marked!"
              /\ pc'[s] = Idle
              /\ inflight'[s] = inflight[s]
              /\ meetingsDb' = meetingsDb )]_vars

\* C3 (as claimed): while a meeting exists, no uid leaves its attendees or its
\* attendeesData.
C3_AttendanceNeverRemoved ==
    [][\A id \in DOMAIN meetingsDb : id \in DOMAIN meetingsDb' =>
         /\ Range(meetingsDb[id].attendees) \subseteq Range(meetingsDb'[id].attendees)
         /\ Range(UidsOf(meetingsDb[id].attendeesData))
               \subseteq Range(UidsOf(meetingsDb'[id].attendeesData))]_vars

\* C4: in every reachable store state the uids of a meeting's attendeesData,
\* in order, are its attendees.
C4_AttendeesDataMatches ==
    \A id \in DOMAIN meetingsDb :
        UidsOf(meetingsDb[id].attendeesData) = meetingsDb[id].attendees

\* Two users have marked attendance for one meeting.
C4_Witness ==
    \E id \in DOMAIN meetingsDb : Len(meetingsDb[id].attendees) = 2

\* C5 (as claimed): a step that takes a (meeting, user) pair from not marked
\* to marked happens only while the meeting is scheduled and its date is in
\* the future.
C5_MarkOnlyFutureScheduled ==
    [][\A id \in DOMAIN meetingsDb : \A u \in Uids :
         ( /\ id \in DOMAIN meetingsDb'
           /\ u \notin Range(meetingsDb[id].attendees)
           /\ u \in Range(meetingsDb'[id].attendees) )
         => ( /\ meetingsDb[id].status = "scheduled"
              /\ isFuture(meetingsDb[id].date, now) )]_vars

\* ------------------------------------------------------------- notification claims
\* The createNotification calls a handler of session s is awaiting after the step.
CalledAfter(s) == IF pc'[s].phase = "notify" THEN pc'[s].queue ELSE <<>>

\* C6 (as claimed): a handleCreateTask that ends in its success banner has
\* written exactly one notification, to the assignee.
C6_ExactlyOneTaskNotification ==
    [][\A s \in Sessions :
         ( /\ pc[s].op = "createTask"
           /\ pc'[s] = Idle
           /\ success'[s] = SuccessText("createTask") )
         => /\ notifs' = Append(notifs, Head(pc[s].queue))
            /\ Head(pc[s].queue).userId \in {tasksDb[id].assignedTo : id \in DOMAIN tasksDb}]_vars

\* C6 (amended): the step of handleCreateTask that commits the task writes no
\* notification and leaves one createNotification call to the task's assignee;
\* the handler's next step ends it in the success banner, with that
\* notification written if its write resolved and with nothing written if it
\* was rejected; no other step writes a "New Task Assigned" notification.
C6_AtMostOneAfterTaskWrite ==
    [][/\ \A s \in Sessions :
            /\ \A title \in Titles, assignedTo \in Uids :
                  handleCreateTask(s, title, assignedTo, TRUE) =>
                      /\ notifs' = notifs
                      /\ nextTaskId \in DOMAIN tasksDb'
                      /\ tasksDb'[nextTaskId].assignedTo = assignedTo
                      /\ pc'[s].op = "createTask"
                      /\ Len(CalledAfter(s)) = 1
                      /\ CalledAfter(s)[1].userId = assignedTo
                      /\ CalledAfter(s)[1].title = "New Task Assigned"
            /\ (pc[s].op = "createTask" /\ pc'[s] # pc[s]) =>
                      /\ pc'[s] = Idle
                      /\ success'[s] = SuccessText("createTask")
                      /\ error'[s] = error[s]
                      /\ tasksDb' = tasksDb
                      /\ IF NotifyOk(s)
                         THEN notifs' = Append(notifs, Head(pc[s].queue))
                         ELSE notifs' = notifs
       /\ ( /\ Len(notifs') > Len(notifs)
            /\ notifs'[Len(notifs')].title = "New Task Assigned" )
          => \E s \in Sessions : pc[s].op = "createTask" /\ pc'[s] = Idle]_vars

\* A task was created and its assignee's notification is the one notification
\* there is.
C6_Witness ==
    \E s \in Sessions :
        /\ pc[s] = Idle
        /\ success[s] = SuccessText("createTask")
        /\ 1 \in DOMAIN tasksDb
        /\ Len(notifs) = 1
        /\ notifs[1].title = "New Task Assigned"
        /\ notifs[1].userId = tasksDb[1].assignedTo

\* C7 (as claimed): the step of handleCreateMeeting that commits the meeting
\* leaves one createNotification call for each user document that exists.
C7_OneNotificationPerUser ==
    [][\A s \in Sessions, title \in Titles, date \in Dates :
         handleCreateMeeting(s, title, date, TRUE) =>
             /\ Len(CalledAfter(s)) = Cardinality(usersDb)
             /\ {CalledAfter(s)[i].userId : i \in DOMAIN CalledAfter(s)} = usersDb]_vars

\* C8: a step in which a notification write of a handler is rejected changes
\* no meeting and no task, sets no error banner, and either leaves the handler
\* with its remaining notification calls or ends it in its success banner.
C8_NotifyFailureKeepsSuccess ==
    [][\A s \in Sessions :
         (pc[s].phase = "notify" /\ pc'[s] # pc[s] /\ notifs' = notifs) =>
             /\ meetingsDb' = meetingsDb
             /\ tasksDb' = tasksDb
             /\ error'[s] = error[s]
             /\ IF Len(pc[s].queue) = 1
                THEN /\ pc'[s] = Idle
                     /\ success'[s] = SuccessText(pc[s].op)
                     /\ inflight'[s]
                ELSE /\ pc'[s].op = pc[s].op
                     /\ pc'[s].phase = "notify"
                     /\ Len(pc'[s].queue) = Len(pc[s].queue) - 1]_vars

\* A task exists, the only notification write of its creation was rejected,
\* and the handler has ended in its success banner.
C8_Witness ==
    \E s \in Sessions :
        /\ pc[s] = Idle
        /\ success[s] = SuccessText("createTask")
        /\ error[s] = ""
        /\ tasksDb # <<>>
        /\ notifs = <<>>

\* C9: a step of handleCreateTask, handleCreateMeeting or handleAddNote whose
\* primary write is rejected writes nothing to any collection, sets the
\* handler's error banner, sets no success banner, starts no refresh, and
\* leaves the handler with nothing to await or send.
C9_PrimaryFailureNoNotification ==
    [][\A s \in Sessions :
         LET failed(op) ==
                 /\ storeVars' = storeVars
                 /\ error'[s] = ErrorText(op)
                 /\ success'[s] = success[s]
                 /\ inflight'[s] = inflight[s]
                 /\ pc'[s] = Idle
         IN
         /\ \A title \in Titles, assignedTo \in Uids :
               handleCreateTask(s, title, assignedTo, FALSE) => failed("createTask")
         /\ \A title \in Titles, date \in Dates :
               handleCreateMeeting(s, title, date, FALSE) => failed("createMeeting")
         /\ handleAddNote(s, FALSE) => failed("addNote")]_vars

\* A session with loaded users whose task creation was rejected: no task, no
\* notification, the error banner.
C9_Witness ==
    \E s \in Sessions :
        /\ error[s] = ErrorText("createTask")
        /\ success[s] = ""
        /\ users[s] # <<>>
        /\ tasksDb = <<>>
        /\ notifs = <<>>

\* The user of session s is the assignee and not the creator of the task the
\* session has selected.
AssigneeNotCreator(s) ==
    /\ selectedTask[s] # NoTask
    /\ selectedTask[s].assignedTo = principal[s]
    /\ selectedTask[s].assignedBy # principal[s]

\* C10 (as claimed): a handleAddNote of the task's assignee, who is not its
\* creator, that ends in its success banner has written exactly one
\* notification, to the creator.
C10_ExactlyOneToCreator ==
    [][\A s \in Sessions :
         ( /\ AssigneeNotCreator(s)
           /\ pc[s].op = "addNote"
           /\ pc'[s] = Idle
           /\ success'[s] = SuccessText("addNote") )
         => /\ notifs' = Append(notifs, Head(pc[s].queue))
            /\ Head(pc[s].queue).userId = selectedTask[s].assignedBy]_vars

\* C10 (amended): when the assignee of the selected task, who is not its
\* creator, adds a note, the step that commits the note writes no notification
\* and leaves one createNotification call, to the creator; the handler's
\* next step ends it in the success banner, with that notification written
\* if its write resolved and with nothing written if it was rejected.  No
\* call is addressed to the assignee.
C10_AtMostOneToCreator ==
    [][\A s \in Sessions : AssigneeNotCreator(s) =>
         /\ handleAddNote(s, TRUE) =>
               /\ notifs' = notifs
               /\ pc'[s].op = "addNote"
               /\ Len(CalledAfter(s)) = 1
               /\ CalledAfter(s)[1].userId = selectedTask[s].assignedBy
               /\ CalledAfter(s)[1].title = "New Task Note"
         /\ (pc[s].op = "addNote" /\ pc'[s] # pc[s]) =>
               /\ pc'[s] = Idle
               /\ success'[s] = SuccessText("addNote")
               /\ error'[s] = error[s]
               /\ IF NotifyOk(s)
                  THEN notifs' = Append(notifs, Head(pc[s].queue))
                  ELSE notifs' = notifs]_vars

\* The assignee's note is on the task and the creator's notification about it
\* is the last one written.
C10_Witness ==
    \E s \in Sessions :
        /\ AssigneeNotCreator(s)
        /\ pc[s] = Idle
        /\ success[s] = SuccessText("addNote")
        /\ selectedTask[s].id \in DOMAIN tasksDb
        /\ tasksDb[selectedTask[s].id].assignedTo = principal[s]
        /\ \E i \in DOMAIN tasksDb[selectedTask[s].id].notes :
               tasksDb[selectedTask[s].id].notes[i].author = principal[s]
        /\ notifs # <<>>
        /\ notifs[Len(notifs)].title = "New Task Note"
        /\ notifs[Len(notifs)].userId = selectedTask[s].assignedBy

\* ------------------------------------------------------------- task claims
\* The users a note by `author` with role `role` is to be announced to, from
\* the creator and the assignee the task document holds.
NoteRecipients(author, role, doc) ==
    (IF doc.assignedBy # author THEN <<doc.assignedBy>> ELSE <<>>)
    \o (IF doc.assignedTo # author /\ role # "member" THEN <<doc.assignedTo>> ELSE <<>>)

\* C11 (as claimed): the step of handleAddNote that commits the note leaves
\* createNotification calls to exactly the creator, if that is not the author,
\* and the assignee, if that is not the author and the author is no member,
\* creator and assignee being those of the task document at that step; none
\* is addressed to the author.
C11_NoteRecipientsFromStore ==
    [][\A s \in Sessions :
         (handleAddNote(s, TRUE) /\ selectedTask[s].id \in DOMAIN tasksDb) =>
             /\ [i \in DOMAIN CalledAfter(s) |-> CalledAfter(s)[i].userId]
                   = NoteRecipients(principal[s], userRole[s], tasksDb[selectedTask[s].id])
             /\ \A i \in DOMAIN CalledAfter(s) : CalledAfter(s)[i].userId # principal[s]]_vars

\* C15 (as claimed): a member's session commits no handleUpdateTask and no
\* handleDeleteTask, and a status change it commits is on a task whose
\* document is assigned to the member.
C15_MemberWritesOwnStatusOnly ==
    [][\A s \in Sessions : userRole[s] = "member" =>
         /\ \A i \in 1 .. MaxTasks, status \in Statuses :
               ( /\ QuickStatus(s, i, status, TRUE)
                 /\ tasks[s][i].id \in DOMAIN tasksDb )
               => tasksDb[tasks[s][i].id].assignedTo = principal[s]
         /\ \A title \in Titles, assignedTo \in Uids :
               ~UpdateTask(s, title, assignedTo, TRUE)
         /\ \A i \in 1 .. MaxTasks : ~DeleteTask(s, i, TRUE)]_vars

\* ------------------------------------------------------------- list claims
\* The ids of the task documents assigned to uid.
OwnTaskIds(uid) == {id \in DOMAIN tasksDb : tasksDb[id].assignedTo = uid}

\* C12 (as claimed): for a user whose role is member, every completion of
\* fetchTasks leaves the list of the Tasks page with exactly the tasks assigned
\* to the user.
C12_MemberListIsOwnTasks ==
    [][\A s \in Sessions, role \in {NoRole, "superadmin", "admin", "member"} :
         (RoleOf(principal[s]) = "member" /\ FetchTasksAnswered(s, role)) =>
             IdsOf(tasks'[s]) = OwnTaskIds(principal[s])]_vars

\* C13 (as claimed): for a user whose role is member, every task that a
\* fetchDashboardData sent with that role loads, for the statistics or for the
\* recent tasks list, is assigned to the user.
C13_MemberDashboardOwnTasks ==
    [][\A s \in Sessions :
         (RoleOf(principal[s]) = "member" /\ FetchDashboardAnswered(s, "member")) =>
             /\ IdsOf(dashboard'[s].tasks) \subseteq OwnTaskIds(principal[s])
             /\ IdsOf(dashboard'[s].recentTasks) \subseteq OwnTaskIds(principal[s])]_vars

\* ------------------------------------------------------------- role claims
\* C14 (as claimed): a create operation called by a member is rejected before
\* any write: handleCreateMeeting called by a member whose addDoc would
\* resolve leaves the meetings collection as it was.
C14_MemberCreateRejected ==
    [][\A s \in Sessions, title \in Titles, date \in Dates :
         (userRole[s] = "member" /\ handleCreateMeeting(s, title, date, TRUE)) =>
             meetingsDb' = meetingsDb]_vars

\* C16 (as claimed): handleUpdateMeeting called by somebody who is neither a
\* superadmin nor the admin who created the meeting is rejected: it leaves
\* the meeting unchanged.
C16_NonCreatorEditRejected ==
    [][\A s \in Sessions, title \in Titles, date \in Dates :
         (/\ handleUpdateMeeting(s, title, date, TRUE)
          /\ editingMeeting[s] \in DOMAIN meetingsDb
          /\ ~canEdit(s, meetingsDb[editingMeeting[s]])) =>
             meetingsDb' = meetingsDb]_vars

\* ------------------------------------------------------------- feed claims
\* The ids of the notifications of uid that the store holds unread.
UnreadOf(uid) == {i \in DOMAIN notifs : notifs[i].userId = uid /\ ~notifs[i].read}

\* The ids a session has sent a read=true write for and awaits.
PendingReads(p) == IF p.phase = "write" THEN p.pending ELSE {}

\* C17 (as claimed): markAllAsRead sends read=true to exactly the
\* notifications of the signed-in user that are unread in the store when the
\* call starts.
C17_MarkAllTargetsUnreadOfPrincipal ==
    [][\A s \in Sessions :
         markAllAsRead(s) => PendingReads(pc'[s]) = UnreadOf(principal[s])]_vars

\* C18: markAsRead is idempotent: the write of a markAsRead call leaves the
\* notification with read = TRUE and every other field and every other
\* notification as it was, so on a notification that is already read it
\* leaves the store unchanged.
C18_MarkAsReadIdempotent ==
    [][\A s \in Sessions, id \in 1 .. MaxNotifs :
         (pc[s].op = "markAsRead" /\ UpdateReadDone(s, id)) =>
             /\ notifs' = [notifs EXCEPT ![id] = [@ EXCEPT !.read = TRUE]]
             /\ notifs[id].read => notifs' = notifs]_vars

\* A markAsRead call on a notification that is already read awaits its write.
C18_Witness ==
    \E s \in Sessions :
        /\ pc[s].op = "markAsRead"
        /\ \E id \in pc[s].pending : notifs[id].read

\* C19 (as claimed): whenever a user is signed in, the feed holds at most 20
\* notifications, all addressed to that user, in descending createdAt.
C19_FeedOfPrincipal ==
    \A s \in Sessions :
        principal[s] # NoUser =>
            /\ Len(feed[s]) <= FeedLimit
            /\ \A i \in DOMAIN feed[s] : feed[s][i].userId = principal[s]
            /\ \A i, j \in DOMAIN feed[s] :
                  i < j => feed[s][i].createdAt >= feed[s][j].createdAt

C21_NotificationsImmutableButRead ==
    [][/\ Len(notifs') >= Len(notifs)
       /\ \A i \in DOMAIN notifs :
             \/ notifs'[i] = notifs[i]
             \/ notifs'[i] = [notifs[i] EXCEPT !.read = TRUE]
       /\ \A i \in DOMAIN notifs' \ DOMAIN notifs : ~notifs'[i].read]_vars

\* The store holds a notification that has been marked read next to one that
\* has not.
C21_Witness ==
    \E i, j \in DOMAIN notifs : notifs[i].read /\ ~notifs[j].read

IsPrefix(seq, longer) ==
    /\ Len(seq) <= Len(longer)
    /\ \A i \in DOMAIN seq : longer[i] = seq[i]

\* C24: the notes of a task only grow at the end: every step leaves the notes
\* a task had as an initial part of the notes it has, whichever handler
\* took the step, and a note that handleAddNote sent is in the array after
\* the step.
C24_NotesAppendOnly ==
    [][/\ \A id \in DOMAIN tasksDb \cap DOMAIN tasksDb' :
             IsPrefix(tasksDb[id].notes, tasksDb'[id].notes)
       /\ \A s \in Sessions :
             (handleAddNote(s, TRUE) /\ selectedTask[s].id \in DOMAIN tasksDb) =>
                 \E n \in Range(tasksDb'[selectedTask[s].id].notes) :
                     n.author = principal[s]]_vars

\* A task holds notes of two authors.
C24_Witness ==
    \E id \in DOMAIN tasksDb :
        \E m, n \in Range(tasksDb[id].notes) : m.author # n.author

\* ------------------------------------------------------------- user claims
\* C25 (as claimed): a user document is written only for a session whose
\* signed-in user is a superadmin or an admin.
C25_UsersCreatedByAdminsOnly ==
    [][\A s \in Sessions, u \in Uids :
         (createSuperAdmin(s, u) \/ CreateUser(s, u)) =>
             (principal[s] # NoUser /\ userRole[s] \in {"superadmin", "admin"})]_vars

\* C28 (as claimed): createUserAsAdmin leaves the signed-in user of the
\* calling session as it was.
C28_CreateUserKeepsSession ==
    [][\A s \in Sessions, u \in Uids :
         CreateUser(s, u) => principal'[s] = principal[s]]_vars

\* ------------------------------------------------------------- Dashboard claims
\* The ids of the stored meetings later than instant t.
FutureIds(t) == {id \in DOMAIN meetingsDb : meetingsDb[id].date > t}

\* C27: the upcoming meetings a fetchDashboardData leaves are meetings later
\* than the clock, at most 5, in ascending date, and the earliest of them:
\* their number is that of the later meetings or 5, and no later meeting left
\* out is earlier than one shown.
C27_UpcomingIsFirstFiveFuture ==
    [][\A s \in Sessions, role \in {NoRole, "superadmin", "admin", "member"} :
         FetchDashboardAnswered(s, role) =>
             LET view == dashboard'[s].upcomingMeetings IN
             /\ IdsOf(view) \subseteq FutureIds(now)
             /\ Len(view) <= 5
             /\ Cardinality(IdsOf(view)) = Len(view)
             /\ Len(view) = IF Cardinality(FutureIds(now)) < 5
                            THEN Cardinality(FutureIds(now)) ELSE 5
             /\ \A i, j \in DOMAIN view : i < j => view[i].date <= view[j].date
             /\ \A id \in FutureIds(now) \ IdsOf(view) :
                   \A i \in DOMAIN view : view[i].date <= meetingsDb[id].date]_vars

\* A Dashboard shows 5 upcoming meetings while the store holds more that are
\* later than the clock, and some that are not.
C27_Witness ==
    \E s \in Sessions :
        /\ dashboard[s].loaded
        /\ Len(dashboard[s].upcomingMeetings) = 5
        /\ Cardinality(FutureIds(now)) > 5


\* ------------------------------------------------------------------ C30
\* C30: an edit of a task committed through the modal's Update button with
\* the status select left as the form showed it leaves the stored status of
\* the task as the store has it at that moment.
C30_EditKeepsStoredStatus ==
    [][\A s \in Sessions, title \in Titles, assignedTo \in Uids :
          (/\ UpdateTask(s, title, assignedTo, TRUE)
           /\ editingTask[s].id \in DOMAIN tasksDb)
          => tasksDb'[editingTask[s].id].status = tasksDb[editingTask[s].id].status]_vars


\* ------------------------------------------------------------------ C29
\* The routes from the moment the application loads: every session shows the
\* Login page; somebody or nobody is signed in to it, and the role of a
\* signed-in user is not loaded yet.
InitRoute ==
    /\ principal \in [Sessions -> Uids \cup {NoUser}]
    /\ userRole = [s \in Sessions |-> NoRole]
    /\ page = [s \in Sessions |-> "login"]
    /\ meetings = [s \in Sessions |-> <<>>]
    /\ tasks = [s \in Sessions |-> <<>>]
    /\ users = [s \in Sessions |-> <<>>]
    /\ usersFetch = [s \in Sessions |-> "none"]
    /\ inflight = [s \in Sessions |-> FALSE]
    /\ pc = [s \in Sessions |-> Idle]
    /\ success = [s \in Sessions |-> ""]
    /\ error = [s \in Sessions |-> ""]
    /\ editingMeeting = [s \in Sessions |-> 0]
    /\ selectedTask = [s \in Sessions |-> NoTask]
    /\ editingTask = [s \in Sessions |-> NoTask]
    /\ queries = [s \in Sessions |-> {}]
    /\ dashboard = [s \in Sessions |-> NoDashboard]
    /\ subs = [s \in Sessions |-> {principal[s]}]
    /\ feed = [s \in Sessions |-> <<>>]
    /\ replies = [s \in Sessions |-> <<>>]
    /\ usersDb = Uids
    /\ notifs = <<>>
    /\ meetingsDb = <<>>
    /\ nextMeetingId = 1
    /\ tasksDb = <<>>
    /\ nextTaskId = 1
    /\ now = 0
    /\ ops = 0

NextRoute ==
    \E s \in Sessions :
        \/ \E path \in Paths : Navigate(s, path)
        \/ RoleResolved(s)

SpecRoute == InitRoute /\ [][NextRoute]_vars

\* C29: the Team page is shown only in a session with a signed-in principal
\* whose role is one of the allowedRoles of its route; no session of a member
\* and no signed-out session ever shows it.
C29_TeamPageForAllowedRolesOnly ==
    \A s \in Sessions :
        page[s] = "team" =>
            /\ principal[s] # NoUser
            /\ RoleOf(principal[s]) \in AllowedRoles("team")


\* ------------------------------------------------------------------ C26
\* The Meetings page of a superadmin and of a member, the answers of getDocs
\* travelling: the fetch of the mount is out when the handlers start, and
\* every handler that commits sends another.
InitFetch ==
    /\ InitSession({"meetings"})
    /\ principal = [A |-> "u1", B |-> "u3"]
    /\ InitStore(MaxOps)

NextFetch ==
    \E s \in Sessions :
        \/ FetchMeetingsRead(s)
        \/ \E i \in 1 .. MaxReplies : FetchMeetingsReply(s, i)
        \/ \E title \in Titles, date \in Dates :
              CreateMeeting(s, title, date, TRUE)
        \/ \E i \in 1 .. MaxMeetings : MarkAttendance(s, i, TRUE)
        \/ \E i \in 1 .. MaxMeetings : DeleteMeeting(s, i, TRUE)

SpecFetch == InitFetch /\ [][NextFetch]_vars

\* C26: once a session's handler has ended and every fetchMeetings the
\* session has sent is answered, the list of the session shows every meeting
\* of the store that the session's principal created: no answer of an earlier
\* fetch has replaced that of the fetch sent after the creation.
C26_OwnMeetingListedAfterFetches ==
    \A s \in Sessions :
        (pc[s] = Idle /\ ~inflight[s] /\ replies[s] = <<>>)
        => \A id \in DOMAIN meetingsDb :
              meetingsDb[id].createdBy = principal[s]
              => id \in IdsOf(meetings[s])

====
